---------------------------- MODULE Spec2Model ----------------------------
(***************************************************************************)
(* A model of cast (src/src/main.rs): an ASCII ray caster.  Every frame    *)
(* `update` moves the camera from the keyboard and fills camera.buffer     *)
(* with one character per cell by a parallel map over the cell indices;    *)
(* `draw` joins the buffer's rows, bottom row first, into the text it      *)
(* hands to the text renderer.                                             *)
(*                                                                         *)
(* Numbers.  The program computes in f32.  The model computes in a binary  *)
(* floating point format of its own: a value is <<m, e>> and stands for    *)
(* m * 2^e, with a significand of Precision bits (15 rather than 24, so    *)
(* that a product of two significands stays inside TLC's 32 bit integers), *)
(* an unbounded exponent, round to nearest (ties to even), and the IEEE    *)
(* special values +inf, -inf and NaN.  The sign of zero is not kept: 1/0   *)
(* is +inf.                                                                *)
(*                                                                         *)
(* Layout.  A value the program names once and uses several times is a     *)
(* parameter of a helper operator here (the operator that computes it      *)
(* hands it on), so that it is evaluated once.                             *)
(***************************************************************************)
EXTENDS Integers, Sequences, FiniteSets, TLC

(***************************************************************************)
(* f32                                                                     *)
(***************************************************************************)
Precision == 15

Zero == <<0, 0>>
PInf == <<1, 0>>
NInf == <<-1, 0>>
NaN  == <<2, 0>>

IsNaN(a) == a[1] = 2
IsInf(a) == a[1] = 1 \/ a[1] = -1
IsZero(a) == a[1] = 0

\* -1, 0 or 1 for a value that is not NaN.
Sgn(a) == IF a[1] > 0 THEN 1 ELSE IF a[1] < 0 THEN -1 ELSE 0

AbsInt(n) == IF n < 0 THEN -n ELSE n

\* The number of bits of v, 0 <= v < 2^31.
RECURSIVE BitLenLow(_)
BitLenLow(v) == IF v = 0 THEN 0 ELSE 1 + BitLenLow(v \div 2)
BitLen(v) == IF v >= 32768 THEN 15 + BitLenLow(v \div 32768) ELSE BitLenLow(v)

\* q + r / (2 * h) rounded to nearest, ties to even.
RoundUp(q, r, h) == IF r > h \/ (r = h /\ q % 2 = 1) THEN q + 1 ELSE q

\* v / 2^s rounded to nearest, ties to even (s >= 1).
RoundShift(v, s) == RoundUp(v \div (2 ^ s), v % (2 ^ s), 2 ^ (s - 1))

\* sign * q * 2^e for a rounded significand q, which may have reached 2^Precision.
Rounded(sign, q, e) ==
    IF q = 2 ^ Precision THEN <<sign * (2 ^ (Precision - 1)), e + 1>> ELSE <<sign * q, e>>

\* The float nearest to sign * v * 2^e, for v > 0 of n bits.
NormBits(sign, v, e, n) ==
    IF n <= Precision
    THEN <<sign * v * (2 ^ (Precision - n)), e - (Precision - n)>>
    ELSE Rounded(sign, RoundShift(v, n - Precision), e + (n - Precision))

\* The float nearest to sign * v * 2^e, for v >= 0.
Norm(sign, v, e) == IF v = 0 THEN Zero ELSE NormBits(sign, v, e, BitLen(v))

NormSigned(s, e) == Norm(IF s < 0 THEN -1 ELSE 1, AbsInt(s), e)

FromInt(n) == NormSigned(n, 0)

Neg(a) == IF IsNaN(a) THEN NaN ELSE <<-a[1], a[2]>>

Abs(a) == IF IsNaN(a) THEN NaN ELSE <<AbsInt(a[1]), a[2]>>

Mul(a, b) ==
    IF IsNaN(a) \/ IsNaN(b) THEN NaN
    ELSE IF IsInf(a) \/ IsInf(b)
         THEN IF IsZero(a) \/ IsZero(b) THEN NaN
              ELSE IF Sgn(a) * Sgn(b) > 0 THEN PInf ELSE NInf
    ELSE Norm(Sgn(a) * Sgn(b), AbsInt(a[1]) * AbsInt(b[1]), a[2] + b[2])

\* sign * (num / den) * 2^(e + 1): the quotient with a sticky bit under it.
DivRounded(sign, num, den, e) ==
    Norm(sign, 2 * (num \div den) + (IF num % den = 0 THEN 0 ELSE 1), e)

Div(a, b) ==
    IF IsNaN(a) \/ IsNaN(b) THEN NaN
    ELSE IF IsInf(a)
         THEN IF IsInf(b) THEN NaN
              ELSE IF Sgn(a) * (IF Sgn(b) < 0 THEN -1 ELSE 1) > 0 THEN PInf ELSE NInf
    ELSE IF IsInf(b) THEN Zero
    ELSE IF IsZero(b)
         THEN IF IsZero(a) THEN NaN ELSE IF Sgn(a) > 0 THEN PInf ELSE NInf
    ELSE DivRounded(Sgn(a) * Sgn(b), AbsInt(a[1]) * 65536, AbsInt(b[1]), a[2] - b[2] - 17)

\* hi + lo for finite non-zero hi, lo with hi's exponent the larger.
AddAligned(hi, lo) ==
    IF hi[2] - lo[2] > Precision + 1 THEN hi
    ELSE NormSigned(hi[1] * (2 ^ (hi[2] - lo[2])) + lo[1], lo[2])

Add(a, b) ==
    IF IsNaN(a) \/ IsNaN(b) THEN NaN
    ELSE IF IsInf(a) THEN (IF IsInf(b) /\ a # b THEN NaN ELSE a)
    ELSE IF IsInf(b) THEN b
    ELSE IF IsZero(a) THEN b
    ELSE IF IsZero(b) THEN a
    ELSE IF a[2] >= b[2] THEN AddAligned(a, b) ELSE AddAligned(b, a)

Sub(a, b) == Add(a, Neg(b))

\* a < b: false when either is NaN.
Lt(a, b) ==
    IF IsNaN(a) \/ IsNaN(b) THEN FALSE
    ELSE IF a = b THEN FALSE
    ELSE IF a = NInf \/ b = PInf THEN TRUE
    ELSE IF a = PInf \/ b = NInf THEN FALSE
    ELSE Sub(a, b)[1] < 0

Gt(a, b) == Lt(b, a)
Le(a, b) == ~IsNaN(a) /\ ~IsNaN(b) /\ (a = b \/ Lt(a, b))
Ge(a, b) == Le(b, a)

\* f32::min and f32::max: when one argument is NaN the other is returned.
Min(a, b) == IF IsNaN(a) THEN b ELSE IF IsNaN(b) THEN a ELSE IF Lt(b, a) THEN b ELSE a
Max(a, b) == IF IsNaN(a) THEN b ELSE IF IsNaN(b) THEN a ELSE IF Lt(a, b) THEN b ELSE a

One == FromInt(1)
Two == FromInt(2)
Four == FromInt(4)

\* f32::signum: 1.0 for a positive number or zero, -1.0 for a negative one.
Signum(a) == IF IsNaN(a) THEN NaN ELSE IF a[1] < 0 THEN Neg(One) ELSE One

\* The largest r with r * r <= v, built bit by bit from `bit` down.
RECURSIVE ISqrt(_, _, _)
ISqrt(v, r, bit) ==
    IF bit < 0 THEN r
    ELSE IF (r + 2 ^ bit) * (r + 2 ^ bit) <= v
         THEN ISqrt(v, r + 2 ^ bit, bit - 1)
         ELSE ISqrt(v, r, bit - 1)

\* sqrt(v) * 2^e given r = ISqrt(v), rounded to nearest.
SqrtUp(v, r, e) == Norm(1, IF v - r * r > r THEN r + 1 ELSE r, e)
SqrtScaled(v, e) == SqrtUp(v, ISqrt(v, 0, 14), e)

Sqrt(a) ==
    IF IsNaN(a) THEN NaN
    ELSE IF IsZero(a) THEN Zero
    ELSE IF a[1] < 0 THEN NaN
    ELSE IF a = PInf THEN PInf
    ELSE IF (a[2] - 14) % 2 = 0
         THEN SqrtScaled(a[1] * 16384, (a[2] - 14) \div 2)
         ELSE SqrtScaled(a[1] * 32768, (a[2] - 15) \div 2)

\* The decimal literal num/den as the nearest float.
Lit(num, den) == Div(FromInt(num), FromInt(den))

\* `as usize`: truncates toward zero and saturates; NaN becomes 0.
UsizeMax == 2 ^ 30
AsUsize(a) ==
    IF IsNaN(a) THEN 0
    ELSE IF a[1] <= 0 THEN 0
    ELSE IF a = PInf THEN UsizeMax
    ELSE IF a[2] >= 0
         THEN (IF a[2] > 15 THEN UsizeMax ELSE a[1] * (2 ^ a[2]))
         ELSE (IF -a[2] > 30 THEN 0 ELSE a[1] \div (2 ^ (-a[2])))

(***************************************************************************)
(* Vec3 and Mat3 (notan::math, the glam crate): a vector is <<x, y, z>>, a *)
(* matrix is its three columns <<x_axis, y_axis, z_axis>>.                 *)
(***************************************************************************)
Axes == 1 .. 3
Vec3(x, y, z) == <<x, y, z>>
VecInt(x, y, z) == <<FromInt(x), FromInt(y), FromInt(z)>>
VecZero == <<Zero, Zero, Zero>>
\* The vector whose component on axis i is f[i].
Components(f) == <<f[1], f[2], f[3]>>
VAdd(a, b) == Components([i \in Axes |-> Add(a[i], b[i])])
VSub(a, b) == Components([i \in Axes |-> Sub(a[i], b[i])])
VMul(a, b) == Components([i \in Axes |-> Mul(a[i], b[i])])
VScale(a, s) == Components([i \in Axes |-> Mul(a[i], s)])
VDivS(a, s) == Components([i \in Axes |-> Div(a[i], s)])
VMin(a, b) == Components([i \in Axes |-> Min(a[i], b[i])])
VMax(a, b) == Components([i \in Axes |-> Max(a[i], b[i])])
MaxElement(a) == Max(a[1], Max(a[2], a[3]))
MinElement(a) == Min(a[1], Min(a[2], a[3]))
Sum3(p) == Add(Add(p[1], p[2]), p[3])
Dot(a, b) == Sum3(VMul(a, b))
\* The axis after axis i, cyclically.
NextAxis(i) == (i % 3) + 1
Cross(a, b) ==
    Components([i \in Axes |-> Sub(Mul(a[NextAxis(i)], b[NextAxis(NextAxis(i))]),
                                   Mul(b[NextAxis(i)], a[NextAxis(NextAxis(i))]))])
LengthSquared(a) == Dot(a, a)
Length(a) == Sqrt(Dot(a, a))
Normalize(a) == VScale(a, Div(One, Length(a)))
\* Mat3 * Vec3: x_axis * v.x + y_axis * v.y + z_axis * v.z
MatVec(m, v) ==
    Components([i \in Axes |->
        Add(Add(Mul(m[1][i], v[1]), Mul(m[2][i], v[2])), Mul(m[3][i], v[3]))])

\* Mat3 * Mat3: the columns of the right factor, each multiplied by the left.
Mat3Mul(a, b) == <<MatVec(a, b[1]), MatVec(a, b[2]), MatVec(a, b[3])>>

Mat3Transpose(m) ==
    << <<m[1][1], m[2][1], m[3][1]>>,
       <<m[1][2], m[2][2], m[3][2]>>,
       <<m[1][3], m[2][3], m[3][3]>> >>

\* Mat3::inverse: the cofactors tmp0, tmp1, tmp2 over the determinant.
InverseScaled(tmp0, tmp1, tmp2, inv_det) ==
    Mat3Transpose(<<VScale(tmp0, inv_det), VScale(tmp1, inv_det), VScale(tmp2, inv_det)>>)
InverseFrom(m, tmp0, tmp1, tmp2) ==
    InverseScaled(tmp0, tmp1, tmp2, Div(One, Dot(m[3], tmp2)))
Mat3Inverse(m) == InverseFrom(m, Cross(m[2], m[3]), Cross(m[3], m[1]), Cross(m[1], m[2]))

Mat3Identity == <<VecInt(1, 0, 0), VecInt(0, 1, 0), VecInt(0, 0, 1)>>

(***************************************************************************)
(* Constants and scene                                                     *)
(***************************************************************************)
WIDTH == 1920
HEIGHT == 1080

ROWS == HEIGHT \div 16
COLS == WIDTH \div 8

\* The distance between the camera and the projection plane.
D == One

\* The spheres state.spheres holds after init.
Sphere(cx, cy, cz, r) == [center |-> VecInt(cx, cy, cz), radius |-> FromInt(r)]
SceneSpheres ==
    << Sphere(0, -1, 3, 1), Sphere(2, 0, 4, 1), Sphere(-2, 0, 4, 1), Sphere(0, -5001, 0, 5000) >>

\* The triangle and the cuboid trace_ray builds on every call.
SceneTriangle ==
    [vertex1 |-> VecInt(0, -1, 1), vertex2 |-> VecInt(3, -1, -1), vertex3 |-> VecInt(1, 2, 1)]
CuboidPosition == VecInt(-1, 0, 3)
CuboidHalfExtents == VecInt(1, 1, 1)

(***************************************************************************)
(* Intersections.  An Option<(Vec3, Vec3)> is None or Some(point, normal); *)
(* the model keeps with a hit the parameter t it was found at, which the   *)
(* program drops.                                                          *)
(***************************************************************************)
None == [hit |-> FALSE]
Some(point, normal, t) == [hit |-> TRUE, point |-> point, normal |-> normal, t |-> t]

EPSILON == Lit(1, 1000000)

\* ray_intersects_triangle, from the last statement back to the first.
TriangleInside(intersection_point, triangle_normal, t, u, v) ==
    IF Ge(u, Zero) /\ Ge(v, Zero) /\ Le(Add(u, v), One)
    THEN Some(intersection_point, triangle_normal, t)
    ELSE None

TriangleBarycentric(intersection_point, triangle_normal, t, e1, e2, q) ==
    TriangleInside(intersection_point, triangle_normal, t,
                   Div(Dot(q, e1), LengthSquared(e1)),
                   Div(Dot(q, e2), LengthSquared(e2)))

TriangleAtPoint(triangle, triangle_normal, t, intersection_point) ==
    TriangleBarycentric(intersection_point, triangle_normal, t,
                        VSub(triangle.vertex2, triangle.vertex1),
                        VSub(triangle.vertex3, triangle.vertex1),
                        VSub(intersection_point, triangle.vertex1))

TriangleAtT(ray_origin, ray_direction, triangle, triangle_normal, t) ==
    IF Lt(t, EPSILON) THEN None
    ELSE TriangleAtPoint(triangle, triangle_normal, t,
                         VAdd(ray_origin, VScale(ray_direction, t)))

TriangleAlongRay(ray_origin, ray_direction, triangle, triangle_normal, triangle_d, denominator) ==
    IF Lt(Abs(denominator), EPSILON) THEN None
    ELSE TriangleAtT(ray_origin, ray_direction, triangle, triangle_normal,
                     Div(Neg(Add(Dot(triangle_normal, ray_origin), triangle_d)), denominator))

TriangleOnPlane(ray_origin, ray_direction, triangle, triangle_normal) ==
    TriangleAlongRay(ray_origin, ray_direction, triangle, triangle_normal,
                     Neg(Dot(triangle_normal, triangle.vertex1)),
                     Dot(ray_direction, triangle_normal))

RayIntersectsTriangle(ray_origin, ray_direction, triangle) ==
    TriangleOnPlane(ray_origin, ray_direction, triangle,
                    Normalize(Cross(VSub(triangle.vertex2, triangle.vertex1),
                                    VSub(triangle.vertex3, triangle.vertex1))))

\* compute_cuboid_normal: the loop over the three axes.
CuboidNormalOf(local_point, half_extents) ==
    Components([i \in Axes |->
        IF Gt(Add(Abs(local_point[i]), Lit(1, 1000000)), half_extents[i])
        THEN Signum(local_point[i])
        ELSE Zero])

ComputeCuboidNormal(point, position, half_extents) ==
    CuboidNormalOf(VSub(point, position), half_extents)

\* ray_intersects_cuboid_no_rotation, from the last statement back to the first.
CuboidAtPoint(position, half_extents, t_enter, intersection_point) ==
    Some(intersection_point,
         ComputeCuboidNormal(intersection_point, position, half_extents),
         t_enter)

CuboidSpan(origin, direction, position, half_extents, t_enter, t_exit) ==
    IF Lt(t_exit, Zero) \/ Gt(t_enter, t_exit) THEN None
    ELSE CuboidAtPoint(position, half_extents, t_enter,
                       VAdd(origin, VScale(direction, t_enter)))

CuboidSlabs(origin, direction, position, half_extents, t1, t2) ==
    CuboidSpan(origin, direction, position, half_extents,
               MaxElement(VMin(t1, t2)), MinElement(VMax(t1, t2)))

CuboidAlong(origin, direction, position, half_extents, inv_direction) ==
    CuboidSlabs(origin, direction, position, half_extents,
                VMul(VSub(position, origin), inv_direction),
                VMul(VSub(VAdd(position, half_extents), origin), inv_direction))

RayIntersectsCuboidNoRotation(origin, direction, position, half_extents) ==
    CuboidAlong(origin, direction, position, half_extents,
                Components([i \in Axes |-> Div(One, direction[i])]))

\* ray_intersects_sphere, from the last statement back to the first: the
\* pair (t1, t2).
SphereRoots(a, b, discriminant) ==
    IF Lt(discriminant, Zero) THEN <<PInf, PInf>>
    ELSE << Div(Add(Neg(b), Sqrt(discriminant)), Mul(Two, a)),
            Div(Sub(Neg(b), Sqrt(discriminant)), Mul(Two, a)) >>

SphereQuadratic(a, b, c) == SphereRoots(a, b, Sub(Mul(b, b), Mul(Mul(Four, a), c)))

SphereFrom(co, direction, r) ==
    SphereQuadratic(Dot(direction, direction),
                    Mul(Two, Dot(co, direction)),
                    Sub(Dot(co, co), Mul(r, r)))

RayIntersectsSphere(origin, direction, sphere) ==
    SphereFrom(VSub(origin, sphere.center), direction, sphere.radius)

(***************************************************************************)
(* Shading                                                                 *)
(***************************************************************************)
Scale == <<".", ",", ":", ";", "*", "+", "o", "x", "%", "&", "#", "$", "@", "9">>

\* What indexing the palette out of its bounds does.
Panic == "panic"

Ambient == Lit(2, 10)
Diffuse == Lit(6, 10)

\* What `i += ...` adds when n_dot_l > 0.
UnscaledTerm(n_dot_l, n, l) == Mul(Diffuse, n_dot_l)
LightingTerm(n_dot_l, n, l) == Div(Mul(Diffuse, n_dot_l), Mul(Length(n), Length(l)))

\* The intensity i of compute_lighting.
IntensityFrom(n, l, n_dot_l) ==
    IF Gt(n_dot_l, Zero) THEN Add(Ambient, LightingTerm(n_dot_l, n, l)) ELSE Ambient
IntensityToward(n, l) == IntensityFrom(n, l, Dot(n, l))
LightingIntensity(p, n, player_pos) == IntensityToward(n, VSub(player_pos, p))

\* index = (i * scale.len() as f32) as usize
LightingIndex(p, n, player_pos) ==
    AsUsize(Mul(LightingIntensity(p, n, player_pos), FromInt(Len(Scale))))

\* scale[index]
Lookup(index) == IF index < Len(Scale) THEN Scale[index + 1] ELSE Panic
ComputeLighting(p, n, player_pos) == Lookup(LightingIndex(p, n, player_pos))

(***************************************************************************)
(* trace_ray                                                               *)
(***************************************************************************)
\* One of the two tests of the loop body: closest_t and closest_sphere
\* after it, for root t of sphere number k.
Consider(t_min, t_max, k, t, closest) ==
    IF Lt(t_min, t) /\ Lt(t, t_max) /\ Lt(t, closest.t)
    THEN [t |-> t, sphere |-> k]
    ELSE closest

ConsiderBoth(t_min, t_max, k, roots, closest) ==
    Consider(t_min, t_max, k, roots[2], Consider(t_min, t_max, k, roots[1], closest))

\* The loop over the spheres from number k on; sphere 0 is no sphere.
RECURSIVE ClosestSphere(_, _, _, _, _, _, _)
ClosestSphere(origin, direction, t_min, t_max, spheres, k, closest) ==
    IF k > Len(spheres) THEN closest
    ELSE ClosestSphere(origin, direction, t_min, t_max, spheres, k + 1,
                       ConsiderBoth(t_min, t_max, k,
                                    RayIntersectsSphere(origin, direction, spheres[k]),
                                    closest))

\* What trace_ray shades: the primitive, the parameter t of the hit, and
\* the point and normal it passes to compute_lighting.
Shaded(kind, t, p, n) == [kind |-> kind, t |-> t, p |-> p, n |-> n]
Miss == [kind |-> "none"]

SphereNormal(t, p, n) == Shaded("sphere", t, p, VDivS(n, Length(n)))
SpherePoint(t, p, s) == SphereNormal(t, p, VSub(p, s.center))

TraceSphere(origin, direction, closest, spheres) ==
    IF closest.sphere # 0
    THEN SpherePoint(closest.t, VAdd(origin, VScale(direction, closest.t)),
                     spheres[closest.sphere])
    ELSE Miss

TraceCuboid(origin, direction, closest, spheres, pp) ==
    IF pp.hit /\ Lt(Length(pp.point), closest.t)
    THEN Shaded("cuboid", pp.t, pp.point, VDivS(pp.normal, Length(pp.normal)))
    ELSE TraceSphere(origin, direction, closest, spheres)

TraceTriangle(origin, direction, closest, spheres, found) ==
    IF found.hit /\ Lt(Length(found.point), closest.t)
    THEN Shaded("triangle", found.t, found.point, Normalize(found.normal))
    ELSE TraceCuboid(origin, direction, closest, spheres,
                     RayIntersectsCuboidNoRotation(origin, direction,
                                                   CuboidPosition, CuboidHalfExtents))

TraceAfterSpheres(origin, direction, closest, spheres) ==
    TraceTriangle(origin, direction, closest, spheres,
                  RayIntersectsTriangle(origin, direction, SceneTriangle))

TraceHit(origin, direction, t_min, t_max, spheres) ==
    TraceAfterSpheres(origin, direction,
                      ClosestSphere(origin, direction, t_min, t_max, spheres, 1,
                                    [t |-> PInf, sphere |-> 0]),
                      spheres)

\* The character trace_ray returns for what it shades.
CharOf(shaded, origin) ==
    IF shaded.kind = "none" THEN " " ELSE ComputeLighting(shaded.p, shaded.n, origin)

TraceRay(origin, direction, t_min, t_max, spheres) ==
    CharOf(TraceHit(origin, direction, t_min, t_max, spheres), origin)

(***************************************************************************)
(* Camera                                                                  *)
(***************************************************************************)
ViewportWidth == One
ViewportHeight == One

\* Camera::camera_pixel_to_viewport_distance, for a buffer of rows x cols cells.
CameraPixelToViewportDistance(x, y, rows, cols) ==
    Vec3(Div(Mul(x, ViewportWidth), FromInt(cols)),
         Div(Mul(y, ViewportHeight), FromInt(rows)),
         D)

\* The pixel coordinates update derives from cell index i.
PixelXFromEdge(i, cols) == i % cols
PixelX(i, cols) == (i % cols) - (cols \div 2)
PixelY(i, rows, cols) == (i \div cols) - (rows \div 2)

\* The closure of update's parallel map: the character of cell i.
CastCell(i, pos, rot, rows, cols, spheres) ==
    TraceRay(pos,
             MatVec(rot, CameraPixelToViewportDistance(FromInt(PixelX(i, cols)),
                                                       FromInt(PixelY(i, rows, cols)),
                                                       rows, cols)),
             One, PInf, spheres)

\* cos(0.025) = 0.99968752 and sin(0.025) = 0.02499740, to Precision bits.
Cos0025 == <<32758, -15>>
Sin0025 == <<26212, -20>>

\* Mat3::from_rotation_y(0.025)
RotationStep == <<Vec3(Cos0025, Zero, Neg(Sin0025)), VecInt(0, 1, 0), Vec3(Sin0025, Zero, Cos0025)>>

Step == Lit(5, 100)
Forward == Vec3(Zero, Zero, Step)
Right == Vec3(Step, Zero, Zero)

\* The six key tests of update, each on the camera the tests before it left.
MoveW(pos, rot, down) == IF "W" \in down THEN VAdd(pos, MatVec(rot, Forward)) ELSE pos
MoveS(pos, rot, down) == IF "S" \in down THEN VSub(pos, MatVec(rot, Forward)) ELSE pos
MoveA(pos, rot, down) == IF "A" \in down THEN VSub(pos, MatVec(rot, Right)) ELSE pos
MoveD(pos, rot, down) == IF "D" \in down THEN VAdd(pos, MatVec(rot, Right)) ELSE pos
TurnE(rot, down) == IF "E" \in down THEN Mat3Mul(rot, RotationStep) ELSE rot
TurnQAlongE(rot, down) == IF "Q" \in down THEN Mat3Mul(rot, RotationStep) ELSE rot
TurnQ(rot, down) == IF "Q" \in down THEN Mat3Mul(rot, Mat3Inverse(RotationStep)) ELSE rot

MovedPosition(pos, rot, down) ==
    MoveD(MoveA(MoveS(MoveW(pos, rot, down), rot, down), rot, down), rot, down)
TurnedRotation(rot, down) == TurnQ(TurnE(rot, down), down)

(***************************************************************************)
(* Bounds of the model                                                     *)
(***************************************************************************)
\* The window of the frame loop's model, in pixels: a grid of 2 x 2 cells.
FrameWidth == 16
FrameHeight == 32
FrameRows == FrameHeight \div 16
FrameCols == FrameWidth \div 8
FrameCells == FrameRows * FrameCols

\* The frames the frame loop runs.
MaxTicks == 2

\* The keyboard states a frame may find.
KeyStates ==
    { {}, {"W"}, {"S"}, {"A"}, {"D"}, {"E"}, {"Q"}, {"W", "S", "A", "D", "E", "Q"} }

(***************************************************************************)
(* The frame loop: notan calls update, then draw, once per frame.          *)
(*                                                                         *)
(*   position, rotation, buffer   state.camera                            *)
(*   pc        where the frame is: "idle" between frames, "keys" and       *)
(*             "cast" inside update, "draw" inside draw                    *)
(*   slots     the vector update's collect() fills, one slot per index of  *)
(*             the parallel iterator; Empty until the task has run         *)
(*   lines     the strings of draw's parallel map over the rows            *)
(*   display   the text handed to the text renderer                        *)
(*   ticks     the frames completed                                        *)
(* and, kept for the properties only,                                      *)
(*   writes    how often each slot was written in this frame               *)
(*   seen      the camera position and rotation each task of this frame    *)
(*             read                                                        *)
(*   turns     frames with E down minus frames with Q down                 *)
(*   probe     the input and the result of the specifications that apply   *)
(*             one function to bounded inputs (below)                      *)
(***************************************************************************)
VARIABLES position, rotation, buffer, pc, slots, lines, display, ticks,
          writes, seen, turns, probe

vars == <<position, rotation, buffer, pc, slots, lines, display, ticks,
          writes, seen, turns, probe>>
frameVars == <<position, rotation, buffer, pc, slots, lines, display, ticks,
               writes, seen, turns>>

Empty == "empty"
Cells == 0 .. FrameCells - 1

NoSlots == [i \in Cells |-> Empty]
NoWrites == [i \in Cells |-> 0]
NoneSeen == [i \in Cells |-> <<>>]

\* The rows of par_chunks(COLS) over a buffer of n characters.
ChunkCount(n, cols) == (n + cols - 1) \div cols
Chunk(buf, r, cols) ==
    SubSeq(buf, r * cols + 1, IF (r + 1) * cols < Len(buf) THEN (r + 1) * cols ELSE Len(buf))

\* The state setup returns.
FrameInit ==
    /\ position = VecZero
    /\ rotation = Mat3Identity
    /\ buffer = <<>>
    /\ pc = "idle"
    /\ slots = NoSlots
    /\ lines = <<>>
    /\ display = <<>>
    /\ ticks = 0
    /\ writes = NoWrites
    /\ seen = NoneSeen
    /\ turns = 0

\* The statements of update in program order: the key tests, then the
\* parallel map.
CastThenKeys == <<"cast", "keys">>
UpdateSteps == <<"keys", "cast">>

StepAfter(step) ==
    IF step = UpdateSteps[Len(UpdateSteps)] THEN "draw"
    ELSE UpdateSteps[(CHOOSE k \in 1..Len(UpdateSteps) : UpdateSteps[k] = step) + 1]

\* The frame pump calls update.
BeginUpdate ==
    /\ pc = "idle"
    /\ ticks < MaxTicks
    /\ pc' = UpdateSteps[1]
    /\ slots' = NoSlots
    /\ writes' = NoWrites
    /\ seen' = NoneSeen
    /\ lines' = <<>>
    /\ UNCHANGED <<position, rotation, buffer, display, ticks, turns, probe>>

\* The six key tests of update.
HandleKeys(down) ==
    /\ pc = "keys"
    /\ position' = MovedPosition(position, rotation, down)
    /\ rotation' = TurnedRotation(rotation, down)
    /\ turns' = turns + (IF "E" \in down THEN 1 ELSE 0) - (IF "Q" \in down THEN 1 ELSE 0)
    /\ pc' = StepAfter("keys")
    /\ UNCHANGED <<buffer, slots, lines, display, ticks, writes, seen, probe>>

\* Where collect() puts the result of the task of index i: an indexed
\* parallel iterator writes each item at its index.
SlotByArrival(i, filled) ==
    CHOOSE k \in Cells : filled[k] = Empty /\ \A j \in Cells : j < k => filled[j] # Empty
SlotOf(i, filled) == i

\* One task of the parallel map: it reads the camera and the spheres and
\* casts the ray of cell i.
CastPixel(i) ==
    /\ pc = "cast"
    /\ seen[i] = <<>>
    /\ slots' = [slots EXCEPT ![SlotOf(i, slots)] =
                    CastCell(i, position, rotation, FrameRows, FrameCols, SceneSpheres)]
    /\ writes' = [writes EXCEPT ![SlotOf(i, slots)] = @ + 1]
    /\ seen' = [seen EXCEPT ![i] = <<position, rotation>>]
    /\ UNCHANGED <<position, rotation, buffer, pc, lines, display, ticks, turns, probe>>

\* What camera.buffer is after `state.camera.buffer = ... .collect()`.
ExtendedBuffer(old, filled) == old \o [k \in 1..FrameCells |-> filled[k - 1]]
CollectedBuffer(old, filled) == [k \in 1..FrameCells |-> filled[k - 1]]

\* The join of the parallel map and the assignment to camera.buffer.
Collect ==
    /\ pc = "cast"
    /\ \A i \in Cells : seen[i] # <<>>
    /\ buffer' = CollectedBuffer(buffer, slots)
    /\ pc' = StepAfter("cast")
    /\ UNCHANGED <<position, rotation, slots, lines, display, ticks, writes, seen, turns, probe>>

\* One task of draw's parallel map: the string of row r and a line break.
DrawRow(r) ==
    /\ pc = "draw"
    /\ r \in 0 .. ChunkCount(Len(buffer), FrameCols) - 1
    /\ r \notin DOMAIN lines
    /\ lines' = (r :> (Chunk(buffer, r, FrameCols) \o <<"\n">>)) @@ lines
    /\ UNCHANGED <<position, rotation, buffer, pc, slots, display, ticks, writes, seen, turns, probe>>

\* The order in which draw's collect() joins n mapped rows: .rev().
RowsInOrder(n) == [k \in 1..n |-> k - 1]
JoinOrder(n) == [k \in 1..n |-> n - k]

RECURSIVE Concat(_, _, _)
Concat(strings, order, k) ==
    IF k > Len(order) THEN <<>>
    ELSE strings[order[k]] \o Concat(strings, order, k + 1)

\* The join of draw's parallel map; the text goes to the renderer.
Present ==
    /\ pc = "draw"
    /\ DOMAIN lines = 0 .. ChunkCount(Len(buffer), FrameCols) - 1
    /\ display' = Concat(lines, JoinOrder(ChunkCount(Len(buffer), FrameCols)), 1)
    /\ ticks' = ticks + 1
    /\ pc' = "idle"
    /\ UNCHANGED <<position, rotation, buffer, slots, lines, writes, seen, turns, probe>>

Init == FrameInit /\ probe = "none"

Next ==
    \/ BeginUpdate
    \/ \E down \in KeyStates : HandleKeys(down)
    \/ \E i \in Cells : CastPixel(i)
    \/ Collect
    \/ \E r \in 0 .. FrameRows - 1 : DrawRow(r)
    \/ Present

Spec == Init /\ [][Next]_vars

(***************************************************************************)
(* trace_ray applied to bounded rays.  probe holds the ray and the range,  *)
(* and after TraceProbe what trace_ray returned and what its three         *)
(* searches found.                                                         *)
(***************************************************************************)
MaxOrigin == 1
MaxDir == 2
MaxRange == 4

\* The camera never leaves the plane y = 0.
OriginDepths == {-2, 0, 1}
RayOrigins == {<<x, 0, z>> : x \in -MaxOrigin .. MaxOrigin, z \in OriginDepths}
\* Directions in steps of 1/2 on each axis.
RayDirections ==
    {<<x, y, z>> : x \in -MaxDir .. MaxDir, y \in -MaxDir .. MaxDir, z \in -MaxDir .. MaxDir}
        \ {<<0, 0, 0>>}
VecHalves(x, y, z) == <<Div(FromInt(x), Two), Div(FromInt(y), Two), Div(FromInt(z), Two)>>
\* The range update passes, and a bounded one.
RayRanges == {<<One, PInf>>, <<Zero, FromInt(MaxRange)>>}

RayInit ==
    /\ FrameInit
    /\ probe \in {[stage |-> "ray",
                   origin |-> VecInt(o[1], o[2], o[3]),
                   direction |-> VecHalves(d[1], d[2], d[3]),
                   t_min |-> r[1], t_max |-> r[2]] :
                     o \in RayOrigins, d \in RayDirections, r \in RayRanges}

\* The traced probe: what trace_ray returned, and what its searches found
\* on the way (closest, triangle, cuboid) and chose to shade.
Traced(ray, closest, triangle) ==
    [stage |-> "traced",
     origin |-> ray.origin, direction |-> ray.direction,
     t_min |-> ray.t_min, t_max |-> ray.t_max,
     char |-> TraceRay(ray.origin, ray.direction, ray.t_min, ray.t_max, SceneSpheres),
     closest |-> closest,
     triangle |-> triangle,
     cuboid |-> RayIntersectsCuboidNoRotation(ray.origin, ray.direction,
                                              CuboidPosition, CuboidHalfExtents),
     shaded |-> TraceTriangle(ray.origin, ray.direction, closest, SceneSpheres, triangle)]

TraceProbe ==
    /\ probe.stage = "ray"
    /\ probe' = Traced(probe,
                       ClosestSphere(probe.origin, probe.direction, probe.t_min, probe.t_max,
                                     SceneSpheres, 1, [t |-> PInf, sphere |-> 0]),
                       RayIntersectsTriangle(probe.origin, probe.direction, SceneTriangle))
    /\ UNCHANGED frameVars

SpecRay == RayInit /\ [][TraceProbe]_vars

(***************************************************************************)
(* ray_intersects_cuboid_no_rotation applied to the rays that meet a face  *)
(* of a cuboid at its centre, at a right angle, from outside.              *)
(***************************************************************************)
MaxCentre == 1
MaxHalf == 2
MaxGap == 2

Sides == {-1, 1}
\* The unit vector of axis a, times k.
AlongAxis(a, k) == [i \in Axes |-> IF i = a THEN k ELSE 0]
Centres ==
    {<<x, y, z>> : x \in -MaxCentre .. MaxCentre, y \in -MaxCentre .. MaxCentre,
                   z \in {0, 3}}
Halves == {<<x, y, z>> : x \in 1 .. MaxHalf, y \in 1 .. MaxHalf, z \in 1 .. MaxHalf}

CuboidInit ==
    /\ FrameInit
    /\ probe \in {[stage |-> "face", centre |-> c, half |-> h, axis |-> a, side |-> sd,
                   origin |-> [i \in Axes |-> c[i] + AlongAxis(a, sd * (h[a] + g))[i]],
                   direction |-> AlongAxis(a, -sd)] :
                     c \in Centres, h \in Halves, a \in Axes, sd \in Sides, g \in 1 .. MaxGap}

\* The ray of a probe: it starts gap outside the face and runs inward.
FaceRayOrigin(f) ==
    VecInt(f.origin[1], f.origin[2], f.origin[3])
FaceRayDirection(f) ==
    VecInt(f.direction[1], f.direction[2], f.direction[3])

FaceProbe ==
    /\ probe.stage = "face"
    /\ probe' = [stage |-> "met", centre |-> probe.centre, half |-> probe.half,
                 axis |-> probe.axis, side |-> probe.side,
                 origin |-> probe.origin, direction |-> probe.direction,
                 found |-> RayIntersectsCuboidNoRotation(
                               FaceRayOrigin(probe), FaceRayDirection(probe),
                               VecInt(probe.centre[1], probe.centre[2], probe.centre[3]),
                               VecInt(probe.half[1], probe.half[2], probe.half[3]))]
    /\ UNCHANGED frameVars

SpecCuboid == CuboidInit /\ [][FaceProbe]_vars

(***************************************************************************)
(* The pixel coordinates of every index of the program's buffer.           *)
(***************************************************************************)
PixelInit ==
    /\ FrameInit
    /\ probe \in {[stage |-> "index", i |-> i] : i \in 0 .. ROWS * COLS - 1}

DerivePixel ==
    /\ probe.stage = "index"
    /\ probe' = [stage |-> "pixel", i |-> probe.i,
                 x |-> PixelX(probe.i, COLS), y |-> PixelY(probe.i, ROWS, COLS)]
    /\ UNCHANGED frameVars

SpecPixel == PixelInit /\ [][DerivePixel]_vars

(***************************************************************************)
(* Properties                                                              *)
(***************************************************************************)
\* The character update's closure computes for cell i of the frame.
CellOf(i) == CastCell(i, position, rotation, FrameRows, FrameCols, SceneSpheres)

\* The buffer a loop over the indices in their order builds, from index i on.
RECURSIVE SequentialFrom(_)
SequentialFrom(i) == IF i >= FrameCells THEN <<>> ELSE <<CellOf(i)>> \o SequentialFrom(i + 1)

\* update has returned and draw has not started a row.
UpdateReturned == pc = "draw" /\ lines = <<>>

\* C1: for a fixed camera and scene the buffer of the parallel map equals,
\* cell for cell, the buffer of the same function evaluated sequentially in
\* index order: whichever tasks have run, in whatever order, the slot of
\* index i holds the character of cell i, and the buffer update assigns is
\* the sequential one.
C1_ParallelIsSequential ==
    /\ pc = "cast" => \A i \in Cells : slots[i] # Empty => slots[i] = CellOf(i)
    /\ UpdateReturned => buffer = SequentialFrom(0)

\* C1 witness: update returned a buffer whose cells are not all alike.
C1_Witness == UpdateReturned /\ ticks = 1 /\ \E i, j \in Cells : buffer[i + 1] # buffer[j + 1]

\* C2: in every tick each task writes exactly one cell and no two write the
\* same: no slot is written twice, and when update has returned the buffer
\* has one cell per index, every slot was written once in this frame, and
\* cell i is the ray cast for pixel (i % cols - cols/2, i / cols - rows/2)
\* from the camera of this frame.
C2_OneCellPerTask ==
    /\ \A i \in Cells : writes[i] <= 1
    /\ UpdateReturned =>
         /\ Len(buffer) = FrameCells
         /\ \A i \in Cells :
              /\ writes[i] = 1
              /\ buffer[i + 1] = slots[i]
              /\ buffer[i + 1] =
                   TraceRay(position,
                            MatVec(rotation,
                                   CameraPixelToViewportDistance(
                                       FromInt((i % FrameCols) - (FrameCols \div 2)),
                                       FromInt((i \div FrameCols) - (FrameRows \div 2)),
                                       FrameRows, FrameCols)),
                            One, PInf, SceneSpheres)

\* C2 witness: the second frame's update has returned, over the buffer the
\* first frame left, from a camera that has moved.
C2_Witness == UpdateReturned /\ ticks = 1 /\ position # VecZero

\* C3: the key tests change the camera before the first cast of the tick
\* and not while casts run: every task that has run read the position and
\* the rotation the camera has now.
C3_KeysBeforeCasts ==
    \A i \in Cells : seen[i] # <<>> => seen[i] = <<position, rotation>>

\* C3 witness: all casts of a frame have run after keys moved and turned
\* the camera.
C3_Witness ==
    /\ pc = "cast"
    /\ \A i \in Cells : seen[i] # <<>>
    /\ position # VecZero
    /\ rotation # Mat3Identity

\* The parameter range of a probe holds t.
InRange(ray, t) == Lt(ray.t_min, t) /\ Lt(t, ray.t_max)

\* The Euclidean distance from the origin of the ray to a point.
DistanceFrom(ray, point) == Length(VSub(point, ray.origin))

\* The hits of a traced probe with t in its range, nearest sphere first,
\* then the triangle, then the cuboid: whether there is one, and how far
\* from the ray's origin.
ValidHits(ray) ==
    << IF ray.closest.sphere # 0
       THEN [ok |-> TRUE,
             distance |-> DistanceFrom(ray, VAdd(ray.origin,
                                                 VScale(ray.direction, ray.closest.t)))]
       ELSE [ok |-> FALSE],
       IF ray.triangle.hit /\ InRange(ray, ray.triangle.t)
       THEN [ok |-> TRUE, distance |-> DistanceFrom(ray, ray.triangle.point)]
       ELSE [ok |-> FALSE],
       IF ray.cuboid.hit /\ InRange(ray, ray.cuboid.t)
       THEN [ok |-> TRUE, distance |-> DistanceFrom(ray, ray.cuboid.point)]
       ELSE [ok |-> FALSE] >>

\* C4: trace_ray shades the hit nearest to the ray's origin among the
\* spheres, the triangle and the cuboid: no hit in range is nearer to the
\* origin than the one shaded.
C4_ShadesNearest ==
    probe.stage = "traced" =>
        \A k \in 1 .. 3 :
            ValidHits(probe)[k].ok =>
                /\ probe.shaded.kind # "none"
                /\ Le(DistanceFrom(probe, probe.shaded.p), ValidHits(probe)[k].distance)

\* C5: the palette index of every shaded hit is one of 0 .. 13, so the
\* lookup does not fail.
C5_IndexInPalette ==
    probe.stage = "traced" /\ probe.shaded.kind # "none" =>
        /\ LightingIndex(probe.shaded.p, probe.shaded.n, probe.origin) \in 0 .. Len(Scale) - 1
        /\ probe.char # Panic

\* C5 witness: a hit lit head-on, at the brightest index the intensity
\* 0.2 + 0.6 reaches.
C5_Witness ==
    /\ probe.stage = "traced"
    /\ probe.shaded.kind # "none"
    /\ LightingIndex(probe.shaded.p, probe.shaded.n, probe.origin) = 11

\* The outward unit normal of the face a probe aims at.
Outward(f) == VecInt(AlongAxis(f.axis, f.side)[1], AlongAxis(f.axis, f.side)[2],
                     AlongAxis(f.axis, f.side)[3])

\* C6: a ray from outside that meets a face of the cuboid at its centre, at
\* a right angle, is a hit, and the normal is the outward unit vector of
\* that face's axis.
C6_FaceCentreHit ==
    probe.stage = "met" => probe.found.hit /\ probe.found.normal = Outward(probe)

\* The least and the greatest pixel coordinates of the program's buffer.
PixelXMin == -(COLS \div 2)
PixelXMax == COLS - 1 - (COLS \div 2)
PixelYMin == -(ROWS \div 2)
PixelYMax == ROWS - 1 - (ROWS \div 2)
CentreIndex == (ROWS \div 2) * COLS + (COLS \div 2)

\* C7: the pixel coordinates are centred on the buffer: x runs from
\* -COLS/2 to COLS - 1 - COLS/2, which is -120 .. 119 and not symmetric as
\* COLS is even, y runs from -ROWS/2 to ROWS - 1 - ROWS/2, which is
\* -33 .. 33, both ends are taken, and exactly one cell has coordinates
\* (0, 0).
C7_PixelRanges ==
    /\ PixelXMin = -120 /\ PixelXMax = 119 /\ PixelYMin = -33 /\ PixelYMax = 33
    /\ probe.stage = "pixel" =>
         /\ probe.x \in PixelXMin .. PixelXMax
         /\ probe.y \in PixelYMin .. PixelYMax
         /\ (probe.x = 0 /\ probe.y = 0) <=> probe.i = CentreIndex
    /\ probe.stage = "index" /\ probe.i = 0 =>
         /\ PixelX(0, COLS) = PixelXMin /\ PixelX(COLS - 1, COLS) = PixelXMax
         /\ PixelY(0, ROWS, COLS) = PixelYMin /\ PixelY(ROWS * COLS - 1, ROWS, COLS) = PixelYMax

\* C7 witness: the cell with coordinates (0, 0).
C7_Witness == probe.stage = "pixel" /\ probe.x = 0 /\ probe.y = 0

\* C7 as stated: the ranges are symmetric around zero on both axes, so the
\* negation of every x is the x of some column and the negation of every y
\* the y of some row, and exactly one cell has coordinates (0, 0).
C7_SymmetricRanges ==
    probe.stage = "pixel" =>
        /\ \E c \in 0 .. COLS - 1 : PixelX(c, COLS) = -probe.x
        /\ \E r \in 0 .. ROWS - 1 : PixelY(r * COLS, ROWS, COLS) = -probe.y
        /\ (probe.x = 0 /\ probe.y = 0) <=> probe.i = CentreIndex

\* C8: trace_ray shades only a hit whose t is strictly inside
\* (t_min, t_max), and returns the space when no sphere, triangle or cuboid
\* hit is inside that range.
C8_ShadesInRangeOnly ==
    probe.stage = "traced" =>
        /\ probe.char # " " => InRange(probe, probe.shaded.t)
        /\ (\A k \in 1 .. 3 : ~ValidHits(probe)[k].ok) => probe.char = " "

\* The text of a buffer of rows x cols cells: line k is row rows - 1 - k,
\* its characters in column order, and a line break.
TextOf(buf, rows, cols) ==
    [j \in 1 .. rows * (cols + 1) |->
        IF (j - 1) % (cols + 1) = cols THEN "\n"
        ELSE buf[(rows - 1 - ((j - 1) \div (cols + 1))) * cols + ((j - 1) % (cols + 1)) + 1]]

\* C9: after an update, the text draw hands over is rows lines of cols
\* characters and a line break each, line k being buffer row rows - 1 - k,
\* whatever the order the rows were mapped in, and the buffer is the one
\* update collected.
C9_TextIsBufferBottomUp ==
    pc = "idle" /\ ticks > 0 =>
        /\ Len(display) = FrameRows * (FrameCols + 1)
        /\ display = TextOf(buffer, FrameRows, FrameCols)
        /\ buffer = CollectedBuffer(buffer, slots)

\* C9 witness: a frame was drawn whose rows differ.
C9_Witness ==
    /\ pc = "idle"
    /\ ticks > 0
    /\ Chunk(buffer, 0, FrameCols) # Chunk(buffer, FrameRows - 1, FrameCols)

\* The rotation about Y by n steps of 0.025 rad: rotations about one axis
\* compose by adding their angles.
RECURSIVE RotationY(_)
RotationY(n) ==
    IF n = 0 THEN Mat3Identity
    ELSE IF n > 0 THEN Mat3Mul(RotationY(n - 1), RotationStep)
    ELSE Mat3Mul(RotationY(n + 1), Mat3Inverse(RotationStep))

\* The entries of two matrices agree to rounding.
Tolerance == Lit(1, 1000)
Near(a, b) == \A i \in Axes, j \in Axes : Lt(Abs(Sub(a[i][j], b[i][j])), Tolerance)

\* C10: whatever keys were down in the ticks so far, the rotation is the
\* rotation about Y by 0.025 * (ticks with E down - ticks with Q down), to
\* rounding, and the y coordinate of the position is 0.
C10_RotationAndPlane ==
    /\ Near(rotation, RotationY(turns))
    /\ position[2] = Zero

\* C10 witness: E was down in more ticks than Q, and the camera has moved.
C10_Witness == ticks > 1 /\ turns = 1 /\ position # VecZero

=============================================================================
